---- MODULE Spec2Model ----
(***************************************************************************)
(* Model of claude_keepalive.py: the keepalive driver (main), the account  *)
(* processor (process_account), the usage fetcher with its retry loop      *)
(* (fetch_usage), the decision policy (should_send_keepalive) and the      *)
(* prompt sender (send_prompt); and of schedule_wakes.py: the wake          *)
(* scheduler (schedule_24_hours, clear_existing_wakes,                     *)
(* schedule_wake_event).                                                   *)
(*                                                                         *)
(* Python values are encoded as follows.                                   *)
(*   - None as a reset boundary is the string PyNone; "" is the empty      *)
(*     string; TS is a non-empty timestamp string.                         *)
(*   - the value stored under a window name of the usage document is a     *)
(*     record [null, keys, resets_at]: JSON null (null = TRUE) or a dict   *)
(*     with the key set `keys` whose "resets_at" value is `resets_at`.     *)
(*   - the usage document is a function from the window names it holds     *)
(*     to such values; a window outside its DOMAIN is absent.              *)
(*   - Optional[Dict] is a sequence of length 0 (None) or 1 (the dict).    *)
(*   - a field of an account record is ABSENT (key not in the dict), ""    *)
(*     or a non-empty value.                                               *)
(*   - a naive datetime is the number of seconds since midnight of the     *)
(*     day on which the wake scheduler runs.                               *)
(***************************************************************************)
EXTENDS Integers, Sequences, FiniteSets, TLC

\* ------------------------------------------------------------------ bounds
MaxAccounts == 2
MaxModes == 2

\* -------------------------------------------------------- program constants
max_retries == 3
WakeCount == 24
WakeMinute == 55

\* ------------------------------------------------------------ value domains
PyNone == "None"
TS == "2025-01-01T00:00:00Z"
ABSENT == "ABSENT"

Windows == {"five_hour", "seven_day"}

NullEntry == [null |-> TRUE, keys |-> {}, resets_at |-> PyNone]

EmptyDict == [null |-> FALSE, keys |-> {}, resets_at |-> PyNone]

Entries ==
    {NullEntry, EmptyDict,
     [null |-> FALSE, keys |-> {"utilization"}, resets_at |-> PyNone]}
    \cup {[null |-> FALSE, keys |-> {"resets_at"}, resets_at |-> r] : r \in {PyNone, "", TS}}

Snapshots == UNION {[D -> Entries] : D \in SUBSET Windows}

EmptySnapshot == CHOOSE s \in Snapshots : DOMAIN s = {}

ModeLists == UNION {[1..n -> Windows] : n \in 0..MaxModes}

FieldValues == {ABSENT, "", "set"}

DirValues == {ABSENT, "missing", "exists"}

Accounts ==
    [config_dir : DirValues, org_id : FieldValues, session_key : FieldValues,
     has_modes : BOOLEAN, keepalive_modes : ModeLists]

WellFormedAccounts == {a \in Accounts : ~a.has_modes => a.keepalive_modes = <<>>}

CliOutcomes == {"exit0", "nonzero", "timeout", "oserror"}

\* ------------------------------------------------------ should_send_keepalive
\* faulty variant of UsageGet: the key is hard-coded, `usage.get("five_hour", {})`
usage_get_five_hour(usage, mode) ==
    IF "five_hour" \in DOMAIN usage THEN usage["five_hour"] ELSE EmptyDict

\* usage.get(mode, {})
UsageGet(usage, mode) == IF mode \in DOMAIN usage THEN usage[mode] ELSE EmptyDict

\* truth value of mode_data: None and {} are falsy
Truthy(mode_data) == ~mode_data.null /\ mode_data.keys # {}

\* faulty variant of ResetsAt: reads a key the record never holds
resets_at_wrong_key(mode_data) == PyNone

\* mode_data.get("resets_at") if mode_data else None
ResetsAt(mode_data) ==
    IF Truthy(mode_data)
    THEN IF "resets_at" \in mode_data.keys THEN mode_data.resets_at ELSE PyNone
    ELSE PyNone

\* faulty variant of NotResetsAt: `resets_at is None`, so "" counts as a boundary
resets_at_is_none(resets_at) == resets_at = PyNone

\* not resets_at
NotResetsAt(resets_at) == resets_at \in {PyNone, ""}

\* one iteration of the loop: the new value of needs_keepalive
ModeStep(usage, mode, force, needs_keepalive) ==
    IF force THEN TRUE
    ELSE IF NotResetsAt(ResetsAt(UsageGet(usage, mode))) THEN TRUE
    ELSE needs_keepalive

RECURSIVE ModeLoop(_, _, _, _, _)
ModeLoop(usage, keepalive_modes, force, i, needs_keepalive) ==
    IF i > Len(keepalive_modes) THEN needs_keepalive
    ELSE ModeLoop(usage, keepalive_modes, force, i + 1,
                  ModeStep(usage, keepalive_modes[i], force, needs_keepalive))

should_send_keepalive(usage, keepalive_modes, force) ==
    ModeLoop(usage, keepalive_modes, force, 1, FALSE)

\* ---------------------------------------------------------------- fetch_usage
\* faulty variant of WillRetry: gives up one attempt early
retry_unsafe_off_by_one(attempt) == attempt < max_retries - 2

\* attempt < max_retries - 1: a failed attempt is followed by a sleep and a retry
WillRetry(attempt) == attempt < max_retries - 1

\* faulty variant of WaitTime: `2 * attempt`
wait_time_linear(attempt) == 2 * attempt

\* wait_time = 2 ** attempt
WaitTime(attempt) == 2 ^ attempt

\* ---------------------------------------------------------------- send_prompt
\* subprocess.run returns (check=False) for any exit code; it raises
\* TimeoutExpired after 30s and OSError when the binary cannot be launched
RunReturns(cli_outcome) == cli_outcome \in {"exit0", "nonzero"}

ReturnCode(cli_outcome) == IF cli_outcome = "exit0" THEN 0 ELSE 1

\* faulty variant of send_prompt: no `except Exception` clause
send_prompt_without_generic_except(cli_outcome) ==
    IF RunReturns(cli_outcome)
    THEN IF ReturnCode(cli_outcome) = 0 THEN "True" ELSE "False"
    ELSE IF cli_outcome = "timeout" THEN "False"
    ELSE "raised"

\* the value send_prompt returns: "True", "False", or "raised" when an
\* exception leaves the function
send_prompt(cli_outcome) ==
    IF RunReturns(cli_outcome)
    THEN IF ReturnCode(cli_outcome) = 0 THEN "True" ELSE "False"
    ELSE IF cli_outcome = "timeout" THEN "False"      \* except subprocess.TimeoutExpired
    ELSE "False"                                      \* except Exception

\* ------------------------------------------------------------ process_account
\* account["name"], account["config_dir"], account["org_id"],
\* account["session_key"] raise KeyError on a key the record does not hold
RaisesKeyError(acct) ==
    acct.config_dir = ABSENT \/ acct.org_id = ABSENT \/ acct.session_key = ABSENT

\* account.get("keepalive_modes", ["five_hour"])
KeepaliveModes(acct) ==
    IF acct.has_modes THEN acct.keepalive_modes ELSE <<"five_hour">>

\* faulty variant of CredsMissing: `and` in place of `or`
creds_missing_only_if_both(org_id, session_key) == org_id = "" /\ session_key = ""

\* not org_id or not session_key
CredsMissing(org_id, session_key) == org_id = "" \/ session_key = ""

\* config_dir.exists()
DirExists(acct) == acct.config_dir = "exists"

\* not usage: None and the empty dict are falsy
NotUsage(u) == u = <<>> \/ DOMAIN u[1] = {}

\* faulty variant of ReachesSend: `usage or {}` in place of the early return
reaches_send_none_as_empty(u, keepalive_modes, force) ==
    should_send_keepalive(IF u = <<>> THEN EmptySnapshot ELSE u[1], keepalive_modes, force)

\* lines 150-154: TRUE when process_account goes on to send_prompt
ReachesSend(u, keepalive_modes, force) ==
    IF NotUsage(u) THEN FALSE
    ELSE should_send_keepalive(u[1], keepalive_modes, force)

\* faulty variant of AfterSend: a failed send_prompt is called again
after_send_retry_on_failure(ret) == IF ret = "True" THEN "returned" ELSE "send"

\* position of process_account after send_prompt has returned `ret`: the return
\* value is discarded and the function ends
AfterSend(ret) == "returned"

\* -------------------------------------------------------------- schedule_wakes
\* datetime.now(): every hour and minute of the day, at the first and the last
\* second of the minute
Times == {h * 3600 + m * 60 + sec : h \in 0..23, m \in 0..59, sec \in {0, 59}}

\* the outcomes of `sudo pmset schedule cancelall` under check=True: exit 0,
\* non-zero exit (CalledProcessError), or sudo cannot be launched (OSError)
ClearOutcomes == {"ok", "CalledProcessError", "OSError"}

\* the outcomes of `sudo pmset schedule wake <time>` under check=True
RegOutcomes == {"ok", "CalledProcessError"}

\* faulty variant of clear_existing_wakes: the except clause returns True
clear_existing_wakes_ignores_failure(outcome) ==
    IF outcome = "OSError" THEN "raised" ELSE "True"

\* the value clear_existing_wakes returns, or "raised" for an exception other
\* than CalledProcessError, which leaves the function
clear_existing_wakes(outcome) ==
    IF outcome = "ok" THEN "True"
    ELSE IF outcome = "CalledProcessError" THEN "False"
    ELSE "raised"

\* faulty variant of schedule_wake_event: the except clause returns True
schedule_wake_event_always_true(outcome) == TRUE

\* the value schedule_wake_event returns
schedule_wake_event(outcome) == outcome = "ok"

\* now.minute
Minute(t) == (t \div 60) % 60

\* now.replace(minute=55, second=0, microsecond=0)
ReplaceMinute(t) == (t \div 3600) * 3600 + WakeMinute * 60

\* t + timedelta(hours=n)
AddHours(t, n) == t + n * 3600

\* faulty variant of FirstWake: `now.minute > 55`
first_wake_strictly_greater(t) ==
    IF Minute(t) > WakeMinute THEN AddHours(ReplaceMinute(t), 1) ELSE ReplaceMinute(t)

\* lines 72-76: current_hour, the first wake time
FirstWake(t) ==
    IF Minute(t) >= WakeMinute THEN AddHours(ReplaceMinute(t), 1) ELSE ReplaceMinute(t)

\* ------------------------------------------------------------------- main
\* is_launchd = not sys.stdin.isatty()
IsLaunchd(tty) == ~tty

\* faulty variant of NetworkWait: `if is_launchd`, the wait also happens in test mode
network_wait_ignores_test(test, launchd) == launchd

\* not args.test and is_launchd: main sleeps 5s before the accounts
NetworkWait(test, launchd) == ~test /\ launchd

\* ----------------------------------------------------------------- state
VARIABLES
    pc,            \* position of main: "start", "loop", "account", "done", "crashed"; "policy", "policy_done"
    test_mode,     \* args.test
    is_tty,        \* sys.stdin.isatty()
    delayed,       \* TRUE once time.sleep(5) of main has completed
    nAccounts,     \* len(config["accounts"])
    idx,           \* 1-based position of the loop of main in config["accounts"]
    processed,     \* positions for which process_account has been called, in call order
    account,       \* process_account: the account record being processed
    apc,           \* position inside process_account
    attempt,       \* fetch_usage: loop variable
    failures,      \* fetch_usage: requests of this call that raised
    slept,         \* fetch_usage: the wait times slept in this call
    usage,         \* process_account: result of fetch_usage (<<>> is None)
    needs,         \* result of should_send_keepalive
    cli,           \* send_prompt: outcome of subprocess.run, "none" before it
    sent,          \* return of send_prompt, "none" before it
    httpCount,     \* per account position: HTTP requests issued
    cliCount,      \* per account position: CLI invocations
    result,        \* per account position: the path on which process_account ended
    wpc,           \* position of schedule_24_hours: "off", "start", "cleared", "loop", "done", "aborted", "crashed"
    clear,         \* outcome of the cancelall command, "none" before it
    now,           \* schedule_24_hours: datetime.now()
    current_hour,  \* schedule_24_hours: the first wake time
    wi,            \* schedule_24_hours: loop variable i
    scheduled_count, \* schedule_24_hours
    failed_count,  \* schedule_24_hours
    wakes,         \* the wake times handed to `pmset schedule wake`, in call order
    pmsetOk        \* number of `pmset schedule wake` commands that exited with 0

runVars == <<pc, test_mode, is_tty, delayed, nAccounts, idx, processed, account, apc,
             attempt, failures, slept, usage, needs, cli, sent, httpCount, cliCount, result>>

wakeVars == <<wpc, clear, now, current_hour, wi, scheduled_count, failed_count, wakes, pmsetOk>>

vars == <<runVars, wakeVars>>

\* the wake scheduler is a separate program: its state while the keepalive
\* driver runs
WakeOff ==
    /\ wpc = "off"
    /\ clear = "none"
    /\ now = 0
    /\ current_hour = 0
    /\ wi = 0
    /\ scheduled_count = 0
    /\ failed_count = 0
    /\ wakes = <<>>
    /\ pmsetOk = 0

NoAccount == [config_dir |-> ABSENT, org_id |-> ABSENT, session_key |-> ABSENT,
              has_modes |-> FALSE, keepalive_modes |-> <<>>]

\* the locals of one process_account call before anything has run
FreshLocals ==
    /\ attempt = 0
    /\ failures = 0
    /\ slept = <<>>
    /\ usage = <<>>
    /\ needs = FALSE
    /\ cli = "none"
    /\ sent = "none"

FreshLocalsNext ==
    /\ attempt' = 0
    /\ failures' = 0
    /\ slept' = <<>>
    /\ usage' = <<>>
    /\ needs' = FALSE
    /\ cli' = "none"
    /\ sent' = "none"

\* ------------------------------------------------------------------- main
Init ==
    /\ pc = "start"
    /\ test_mode \in BOOLEAN
    /\ is_tty \in BOOLEAN
    /\ delayed = FALSE
    /\ nAccounts \in 0..MaxAccounts
    /\ idx = 0
    /\ processed = <<>>
    /\ account = NoAccount
    /\ apc = "idle"
    /\ FreshLocals
    /\ httpCount = [i \in 1..nAccounts |-> 0]
    /\ cliCount = [i \in 1..nAccounts |-> 0]
    /\ result = [i \in 1..nAccounts |-> "none"]
    /\ WakeOff

\* main, lines 177-193: parse arguments, load the config, wait for the network
Startup ==
    /\ pc = "start"
    /\ delayed' = NetworkWait(test_mode, IsLaunchd(is_tty))
    /\ pc' = "loop"
    /\ UNCHANGED wakeVars
    /\ UNCHANGED <<test_mode, is_tty, nAccounts, idx, processed, account, apc,
                   attempt, failures, slept, usage, needs, cli, sent,
                   httpCount, cliCount, result>>

\* main, lines 195-196: the loop takes the next account record of the config
NextAccount ==
    /\ pc = "loop"
    /\ idx < nAccounts
    /\ \E a \in WellFormedAccounts : account' = a
    /\ idx' = idx + 1
    /\ processed' = Append(processed, idx + 1)
    /\ pc' = "account"
    /\ apc' = "entry"
    /\ FreshLocalsNext
    /\ UNCHANGED wakeVars
    /\ UNCHANGED <<test_mode, is_tty, delayed, nAccounts, httpCount, cliCount, result>>

\* process_account, lines 132-147
Validate ==
    /\ pc = "account"
    /\ apc = "entry"
    /\ IF RaisesKeyError(account)
       THEN /\ apc' = "raised"
            /\ pc' = "crashed"
            /\ result' = [result EXCEPT ![idx] = "KeyError"]
       ELSE IF CredsMissing(account.org_id, account.session_key)
       THEN /\ apc' = "returned"
            /\ pc' = pc
            /\ result' = [result EXCEPT ![idx] = "missing_creds"]
       ELSE IF ~DirExists(account)
       THEN /\ apc' = "returned"
            /\ pc' = pc
            /\ result' = [result EXCEPT ![idx] = "missing_dir"]
       ELSE /\ apc' = "fetch"
            /\ pc' = pc
            /\ result' = result
    /\ UNCHANGED wakeVars
    /\ UNCHANGED <<test_mode, is_tty, delayed, nAccounts, idx, processed, account,
                   attempt, failures, slept, usage, needs, cli, sent,
                   httpCount, cliCount>>

\* fetch_usage, lines 49-65: the request succeeds and its body is returned
FetchSuccess ==
    /\ pc = "account"
    /\ apc = "fetch"
    /\ attempt < max_retries
    /\ httpCount' = [httpCount EXCEPT ![idx] = @ + 1]
    /\ \E body \in Snapshots : usage' = <<body>>
    /\ apc' = "fetched"
    /\ UNCHANGED wakeVars
    /\ UNCHANGED <<pc, test_mode, is_tty, delayed, nAccounts, idx, processed, account,
                   attempt, failures, slept, needs, cli, sent, cliCount, result>>

\* fetch_usage, lines 49-58 and 66-73: the request raises
FetchFailure ==
    /\ pc = "account"
    /\ apc = "fetch"
    /\ attempt < max_retries
    /\ httpCount' = [httpCount EXCEPT ![idx] = @ + 1]
    /\ failures' = failures + 1
    /\ IF WillRetry(attempt)
       THEN /\ slept' = Append(slept, WaitTime(attempt))
            /\ attempt' = attempt + 1
            /\ apc' = apc
       ELSE /\ slept' = slept
            /\ attempt' = attempt
            /\ apc' = "fetched"
    /\ usage' = <<>>
    /\ UNCHANGED wakeVars
    /\ UNCHANGED <<pc, test_mode, is_tty, delayed, nAccounts, idx, processed, account,
                   needs, cli, sent, cliCount, result>>

\* process_account, lines 150-154.  usage is not read after line 153, and
\* the model forgets it there.  result tells None ("fetch_failed") from the
\* empty document ("empty_usage"), which the code treats alike.
Decide ==
    /\ pc = "account"
    /\ apc = "fetched"
    /\ needs' = IF NotUsage(usage) THEN FALSE
                ELSE should_send_keepalive(usage[1], KeepaliveModes(account), test_mode)
    /\ IF ReachesSend(usage, KeepaliveModes(account), test_mode)
       THEN /\ apc' = "send"
            /\ result' = result
       ELSE /\ apc' = "returned"
            /\ result' = [result EXCEPT ![idx] =
                              IF usage = <<>> THEN "fetch_failed"
                              ELSE IF NotUsage(usage) THEN "empty_usage"
                              ELSE "not_needed"]
    /\ usage' = <<>>
    /\ UNCHANGED wakeVars
    /\ UNCHANGED <<pc, test_mode, is_tty, delayed, nAccounts, idx, processed, account,
                   attempt, failures, slept, cli, sent, httpCount, cliCount>>

\* process_account, lines 156-162, and send_prompt, lines 98-127
Send ==
    /\ pc = "account"
    /\ apc = "send"
    /\ \E o \in CliOutcomes :
          /\ cli' = o
          /\ sent' = send_prompt(o)
          /\ cliCount' = [cliCount EXCEPT ![idx] = @ + 1]
          /\ IF send_prompt(o) = "raised"
             THEN /\ apc' = "raised"
                  /\ pc' = "crashed"
                  /\ result' = [result EXCEPT ![idx] = "send_raised"]
             ELSE /\ apc' = AfterSend(send_prompt(o))
                  /\ pc' = pc
                  /\ result' = [result EXCEPT ![idx] =
                                    IF send_prompt(o) = "True" THEN "sent" ELSE "send_failed"]
    /\ UNCHANGED wakeVars
    /\ UNCHANGED <<test_mode, is_tty, delayed, nAccounts, idx, processed, account,
                   attempt, failures, slept, usage, needs, httpCount>>

\* process_account returns to the loop of main
Return ==
    /\ pc = "account"
    /\ apc = "returned"
    /\ pc' = "loop"
    /\ apc' = "idle"
    /\ account' = NoAccount
    /\ FreshLocalsNext
    /\ UNCHANGED wakeVars
    /\ UNCHANGED <<test_mode, is_tty, delayed, nAccounts, idx, processed,
                   httpCount, cliCount, result>>

\* main, line 198: "Keepalive complete"
Finish ==
    /\ pc = "loop"
    /\ idx = nAccounts
    /\ pc' = "done"
    /\ UNCHANGED wakeVars
    /\ UNCHANGED <<test_mode, is_tty, delayed, nAccounts, idx, processed, account, apc,
                   attempt, failures, slept, usage, needs, cli, sent,
                   httpCount, cliCount, result>>

Next ==
    \/ Startup
    \/ NextAccount
    \/ Validate
    \/ FetchSuccess
    \/ FetchFailure
    \/ Decide
    \/ Send
    \/ Return
    \/ Finish

Spec == Init /\ [][Next]_vars

\* ------------------------------------------- the decision policy on its own
\* should_send_keepalive called on every usage document, every list of tracked
\* windows and both values of force
PolicyInit ==
    /\ pc = "policy"
    /\ test_mode \in BOOLEAN
    /\ is_tty = TRUE
    /\ delayed = FALSE
    /\ nAccounts = 0
    /\ idx = 0
    /\ processed = <<>>
    /\ account \in {a \in WellFormedAccounts :
                      a.config_dir = "exists" /\ a.org_id = "set"
                      /\ a.session_key = "set" /\ a.has_modes}
    /\ apc = "idle"
    /\ attempt = 0
    /\ failures = 0
    /\ slept = <<>>
    /\ usage \in {<<s>> : s \in Snapshots}
    /\ needs = FALSE
    /\ cli = "none"
    /\ sent = "none"
    /\ httpCount = <<>>
    /\ cliCount = <<>>
    /\ result = <<>>
    /\ WakeOff

PolicyCall ==
    /\ pc = "policy"
    /\ needs' = should_send_keepalive(usage[1], account.keepalive_modes, test_mode)
    /\ pc' = "policy_done"
    /\ UNCHANGED wakeVars
    /\ UNCHANGED <<test_mode, is_tty, delayed, nAccounts, idx, processed, account, apc,
                   attempt, failures, slept, usage, cli, sent,
                   httpCount, cliCount, result>>

PolicyNext == PolicyCall

PolicySpec == PolicyInit /\ [][PolicyNext]_vars

\* ------------------------------------------------------- schedule_24_hours
\* the keepalive driver is a separate program: its state while the wake
\* scheduler runs
RunOff ==
    /\ pc = "off"
    /\ test_mode = FALSE
    /\ is_tty = TRUE
    /\ delayed = FALSE
    /\ nAccounts = 0
    /\ idx = 0
    /\ processed = <<>>
    /\ account = NoAccount
    /\ apc = "idle"
    /\ FreshLocals
    /\ httpCount = <<>>
    /\ cliCount = <<>>
    /\ result = <<>>

WakeInit ==
    /\ RunOff
    /\ wpc = "start"
    /\ clear = "none"
    /\ now = 0
    /\ current_hour = 0
    /\ wi = 0
    /\ scheduled_count = 0
    /\ failed_count = 0
    /\ wakes = <<>>
    /\ pmsetOk = 0

\* schedule_24_hours, lines 64-69, and clear_existing_wakes, lines 27-41
WakeClear ==
    /\ wpc = "start"
    /\ \E o \in ClearOutcomes :
          /\ clear' = o
          /\ wpc' = IF clear_existing_wakes(o) = "True" THEN "cleared"
                    ELSE IF clear_existing_wakes(o) = "False" THEN "aborted"
                    ELSE "crashed"
    /\ UNCHANGED <<now, current_hour, wi, scheduled_count, failed_count, wakes, pmsetOk>>
    /\ UNCHANGED runVars

\* schedule_24_hours, lines 71-81
WakeCompute ==
    /\ wpc = "cleared"
    /\ \E t \in Times :
          /\ now' = t
          /\ current_hour' = FirstWake(t)
    /\ scheduled_count' = 0
    /\ failed_count' = 0
    /\ wi' = 0
    /\ wpc' = "loop"
    /\ UNCHANGED <<clear, wakes, pmsetOk>>
    /\ UNCHANGED runVars

\* schedule_24_hours, lines 83-88, and schedule_wake_event, lines 44-59
WakeRegister ==
    /\ wpc = "loop"
    /\ wi < WakeCount
    /\ wakes' = Append(wakes, AddHours(current_hour, wi))
    /\ \E o \in RegOutcomes :
          /\ pmsetOk' = IF o = "ok" THEN pmsetOk + 1 ELSE pmsetOk
          /\ IF schedule_wake_event(o)
             THEN /\ scheduled_count' = scheduled_count + 1
                  /\ failed_count' = failed_count
             ELSE /\ scheduled_count' = scheduled_count
                  /\ failed_count' = failed_count + 1
    /\ wi' = wi + 1
    /\ UNCHANGED <<wpc, clear, now, current_hour>>
    /\ UNCHANGED runVars

\* schedule_24_hours, lines 90-95
WakeFinish ==
    /\ wpc = "loop"
    /\ wi = WakeCount
    /\ wpc' = "done"
    /\ UNCHANGED <<clear, now, current_hour, wi, scheduled_count, failed_count, wakes, pmsetOk>>
    /\ UNCHANGED runVars

WakeNext ==
    \/ WakeClear
    \/ WakeCompute
    \/ WakeRegister
    \/ WakeFinish

WakeSpec == WakeInit /\ [][WakeNext]_vars

\* ================================================================= claims
\* a tracked window lacks a reset boundary in usage document u: the window is
\* absent, its record is null or holds no resets_at, or resets_at is null or ""
Lacks(u, w) ==
    \/ w \notin DOMAIN u
    \/ u[w].null
    \/ "resets_at" \notin u[w].keys
    \/ u[w].resets_at = PyNone
    \/ u[w].resets_at = ""

PolicyDone == pc = "policy_done"

TrackedIdx == 1..Len(account.keepalive_modes)

\* C1: should_send_keepalive returns true whenever force is true, for every
\* usage document and every list of tracked windows, the empty list included.
C1_ForceAlwaysTrue == (PolicyDone /\ test_mode) => needs

\* C2: should_send_keepalive returns true whenever at least one tracked window
\* lacks a reset boundary, whatever force and the other tracked windows hold.
C2_LackingWindowTrue ==
    (PolicyDone /\ \E i \in TrackedIdx : Lacks(usage[1], account.keepalive_modes[i]))
        => needs

\* C2 witness: without force, the first tracked window has a boundary and the
\* second holds resets_at = "", and the policy has answered true.
C2_Witness ==
    /\ PolicyDone
    /\ ~test_mode
    /\ needs
    /\ Len(account.keepalive_modes) = 2
    /\ ~Lacks(usage[1], account.keepalive_modes[1])
    /\ account.keepalive_modes[2] \in DOMAIN usage[1]
    /\ usage[1][account.keepalive_modes[2]].keys = {"resets_at"}
    /\ usage[1][account.keepalive_modes[2]].resets_at = ""

\* C3: should_send_keepalive returns false whenever every tracked window has a
\* non-empty reset boundary and force is false, in any order of the list.
C3_AllBoundariesFalse ==
    (PolicyDone /\ ~test_mode
       /\ \A i \in TrackedIdx : ~Lacks(usage[1], account.keepalive_modes[i]))
        => ~needs

\* C3 witness: two distinct tracked windows, both with a boundary, no force,
\* and the policy has answered false.
C3_Witness ==
    /\ PolicyDone
    /\ ~test_mode
    /\ ~needs
    /\ Len(account.keepalive_modes) = 2
    /\ account.keepalive_modes[1] # account.keepalive_modes[2]
    /\ \A i \in TrackedIdx : ~Lacks(usage[1], account.keepalive_modes[i])

InAccount == pc = "account" /\ idx \in 1..nAccounts

\* fetch_usage has returned None in the current process_account call
FetchReturnedNone == InAccount /\ apc = "fetched" /\ usage = <<>>

\* C4: one call of fetch_usage issues at most 3 requests, and it returns None
\* only after exactly 3 requests were issued and all 3 failed.
C4_AtMostThreeRequests ==
    /\ \A i \in 1..nAccounts : httpCount[i] <= 3
    /\ FetchReturnedNone => (httpCount[idx] = 3 /\ failures = 3)

\* C4 witness: fetch_usage has returned None after three failed requests.
C4_Witness == FetchReturnedNone /\ httpCount[idx] = 3 /\ failures = 3

\* the current account passed validation and its fetch returned a body
FetchSucceeded ==
    InAccount /\ result[idx] \in {"empty_usage", "not_needed", "sent", "send_failed"}

\* C5: in test mode every account that passes validation and whose usage fetch
\* succeeds has the prompt sender invoked, whatever the body and the tracked
\* windows are.
C5_ForceAlwaysSends ==
    (apc = "returned" /\ test_mode /\ FetchSucceeded) => cliCount[idx] = 1

\* the account being processed has an empty org_id or session_key, or a
\* config directory that does not exist
FailsValidation ==
    account.org_id = "" \/ account.session_key = "" \/ account.config_dir = "missing"

\* C6: an account with an empty org_id or session_key or without its config
\* directory gets no HTTP request and no CLI invocation, and when
\* process_account returns it has taken one of the two logged skip paths.
C6_InvalidAccountNoIO ==
    (pc \in {"account", "crashed"} /\ idx \in 1..nAccounts /\ FailsValidation)
        => /\ httpCount[idx] = 0
           /\ cliCount[idx] = 0
           /\ apc \notin {"fetch", "fetched", "send"}
           /\ apc = "returned" => result[idx] \in {"missing_creds", "missing_dir"}

\* C6 witness: in test mode, an account with an org_id and a config directory
\* but an empty session_key has been skipped.
C6_Witness ==
    /\ InAccount
    /\ apc = "returned"
    /\ test_mode
    /\ account.org_id = "set"
    /\ account.session_key = ""
    /\ account.config_dir = "exists"
    /\ result[idx] = "missing_creds"

\* C7: once the usage fetch of an account has failed three times and returned
\* None, the prompt sender is not invoked for that account in that run.
C7_NoSendAfterFetchFailure ==
    /\ (InAccount /\ failures = 3 /\ apc # "fetch")
          => (apc \in {"fetched", "returned"} /\ cliCount[idx] = 0)
    /\ \A i \in 1..nAccounts : result[i] = "fetch_failed" => cliCount[i] = 0

\* C7 witness: in test mode, process_account has returned after a fetch that
\* failed three times.
C7_Witness ==
    /\ InAccount
    /\ apc = "returned"
    /\ test_mode
    /\ failures = 3
    /\ result[idx] = "fetch_failed"

RunEnded == pc \in {"done", "crashed"}

\* C8: whatever fails for one account, when the run ends every account of the
\* config list has been processed exactly once, in list order.
C8_EveryAccountProcessed == RunEnded => processed = [i \in 1..nAccounts |-> i]

\* C9: the CLI is invoked at most once per account per run, while up to 3
\* usage requests may be issued for the same account.
C9_CliAtMostOnce ==
    \A i \in 1..nAccounts : cliCount[i] <= 1 /\ (cliCount[i] = 1 => httpCount[i] \in 1..3)

\* C9 witness: the CLI invocation of an account failed after its third usage
\* request succeeded, and process_account has returned without a second one.
C9_Witness ==
    /\ InAccount
    /\ apc = "returned"
    /\ sent = "False"
    /\ cliCount[idx] = 1
    /\ httpCount[idx] = 3

\* C10: send_prompt returns true exactly when the CLI exits with code 0 in
\* time; a non-zero exit, a timeout or a launch error gives false, and no
\* exception leaves send_prompt.
C10_SendPromptResult ==
    cli # "none" =>
        /\ sent \in {"True", "False"}
        /\ sent = "True" <=> cli = "exit0"
        /\ apc # "raised"

\* C10 witness: the CLI could not be launched and send_prompt returned false.
C10_Witness == InAccount /\ apc = "returned" /\ cli = "oserror" /\ sent = "False"

\* ------------------------------------------------------- wake scheduler claims
\* C11: no wake registration is made before the clear-all call has completed
\* successfully; if the clear step fails, no wake event is registered and the
\* operation aborts.
C11_NoWakeBeforeClear ==
    /\ wakes # <<>> => clear = "ok"
    /\ wpc \in {"loop", "done"} => clear = "ok"
    /\ clear \in {"CalledProcessError", "OSError"}
          => (wakes = <<>> /\ pmsetOk = 0 /\ wpc \in {"aborted", "crashed"})

\* C11 witness: the cancelall command exited non-zero and schedule_24_hours
\* has returned without a registration.
C11_Witness == clear = "CalledProcessError" /\ wpc = "aborted" /\ wakes = <<>>

C13_WakeTimes ==
    \A k \in 1..Len(wakes) :
        /\ wakes[k] % 3600 = 55 * 60
        /\ k > 1 => wakes[k] = wakes[k - 1] + 3600
        /\ k = 1 => /\ wakes[1] > now
                    /\ wakes[1] - now <= 3600
                    /\ wakes[1] \div 3600 =
                          IF (now \div 60) % 60 < 55 THEN now \div 3600 ELSE now \div 3600 + 1

\* C13 witness: started at 23:55:00, the 24 wake times run from 00:55:00 of
\* the next day.
C13_Witness ==
    /\ wpc = "done"
    /\ now = 23 * 3600 + 55 * 60
    /\ Len(wakes) = 24
    /\ wakes[1] = 24 * 3600 + 55 * 60
    /\ wakes[24] = 47 * 3600 + 55 * 60

\* ------------------------------------------------------------ behaviour claims
\* the waits 1s, 2s of the backoff, as far as `n` failures have been followed by one
Backoff(n) == SubSeq(<<1, 2>>, 1, IF n < 2 THEN n ELSE 2)

\* C14: fetch_usage returns at the first successful request and issues no
\* request after it; it waits 1s after the first failure, 2s after the second
\* and nothing after the third, after which it returns None.
C14_FirstSuccessAndBackoff ==
    InAccount =>
        /\ apc = "fetch" => (httpCount[idx] = failures /\ failures <= 2 /\ slept = Backoff(failures))
        /\ (apc = "fetched" /\ usage # <<>>)
              => (httpCount[idx] = failures + 1 /\ failures <= 2 /\ slept = Backoff(failures))
        /\ (apc = "fetched" /\ usage = <<>>)
              => (httpCount[idx] = 3 /\ failures = 3 /\ slept = <<1, 2>>)
        /\ apc \in {"send", "returned"} => httpCount[idx] <= failures + 1

\* C14 witness: the third request succeeded after waits of 1s and 2s.
C14_Witness ==
    /\ InAccount
    /\ apc = "fetched"
    /\ usage # <<>>
    /\ failures = 2
    /\ httpCount[idx] = 3
    /\ slept = <<1, 2>>

\* C15: for a validated account whose fetch returned a body, the empty body
\* included, process_account goes on to the prompt sender exactly when the
\* decision policy applied to that body, the tracked windows and the force
\* flag returns true.
C15_SendIffPolicy ==
    [][(InAccount /\ apc = "fetched" /\ usage # <<>>)
          => ((apc' = "send")
                <=> should_send_keepalive(usage[1], KeepaliveModes(account), test_mode))]_vars

\* C16: the outcome of an account does not depend on the accounts around it:
\* when the run ends every account of the list has an outcome of its own,
\* whatever happened to the accounts processed before it, so that a
\* permutation of the list leaves the set of accounts fetched and sent to
\* unchanged.
C16_OutcomeIndependentOfOthers ==
    RunEnded => \A i \in 1..nAccounts : result[i] # "none"

\* C17: a run always terminates at "Keepalive complete", with at most 3 HTTP
\* requests and at most 1 CLI invocation per account.
C17_TerminatesAtComplete ==
    /\ pc = "done" \/ ENABLED Next
    /\ \A i \in 1..nAccounts : httpCount[i] <= 3 /\ cliCount[i] <= 1

\* C18: the network wait happens exactly when the run is non-interactive and
\* not in test mode, and it is over before the first account is processed.
C18_DelayExactlyWhenLaunchd ==
    /\ pc # "start" => (delayed <=> (~test_mode /\ ~is_tty))
    /\ pc = "start" => /\ ~delayed
                       /\ processed = <<>>
                       /\ \A i \in 1..nAccounts : httpCount[i] = 0 /\ cliCount[i] = 0

\* C18 witness: a non-interactive run outside test mode has waited and then
\* issued the first usage request.
C18_Witness ==
    /\ InAccount
    /\ ~test_mode
    /\ ~is_tty
    /\ delayed
    /\ idx = 1
    /\ httpCount[1] = 1

\* two usage documents agree on every window of the tracked list
AgreeOnTracked(u1, u2, keepalive_modes) ==
    \A i \in 1..Len(keepalive_modes) :
        LET w == keepalive_modes[i]
        IN  /\ (w \in DOMAIN u1) <=> (w \in DOMAIN u2)
            /\ w \in DOMAIN u1 => u1[w] = u2[w]

\* C19: the result of should_send_keepalive depends only on force and on the
\* entries of the tracked windows: any usage document that agrees with the
\* given one on every tracked window yields the same result.
C19_OnlyTrackedWindows ==
    PolicyDone =>
        \A u2 \in Snapshots :
            AgreeOnTracked(usage[1], u2, account.keepalive_modes)
                => should_send_keepalive(u2, account.keepalive_modes, test_mode) = needs

\* C19 witness: one window is tracked and has a boundary, the
\* other window is in the document without a boundary, and the answer is false.
C19_Witness ==
    /\ PolicyDone
    /\ ~test_mode
    /\ ~needs
    /\ Len(account.keepalive_modes) = 1
    /\ \E w \in DOMAIN usage[1] :
          w # account.keepalive_modes[1] /\ Lacks(usage[1], w)

====
